---- MODULE Spec2Model ----
(***************************************************************************)
(* Offline-cache synchronisation hooks of frappe-react-sdk                 *)
(* (src/src/lib/index.tsx, second bundle, lines 1570-2028):                *)
(*   useFrappeGetDocOffline, useFrappeGetDocListOffline,                   *)
(*   useFrappeGetCallOffline, useGetLastFetched.                           *)
(*                                                                         *)
(* One hook instance is mounted for one identity.  Its React state         *)
(* (lastFetched, shouldLoad), the SWR cache entries of the keys it uses,   *)
(* the IndexedDB table "docs" and the Frappe server are the state.  Every  *)
(* external event (a store read resolving, an SWR response, a caller       *)
(* invoking mutate()/delete(), an SWR background revalidation) is one      *)
(* action; the action includes the re-render it causes and every effect    *)
(* that the re-render runs (RenderA, RenderB).                              *)
(*                                                                         *)
(* Values: an optional JS value is a sequence, <<>> for undefined and      *)
(* <<v>> for v.  A JS string is a sequence of tokens, so that template     *)
(* strings are concatenations.  A timestamp is a number of clock ticks;    *)
(* TicksPerSec ticks make one second, so that the conversions that drop    *)
(* the sub-second part are not the identity.  Client and server share one  *)
(* clock and one time zone (UTC).                                          *)
(***************************************************************************)
EXTENDS Integers, Sequences, FiniteSets, TLC

VARIABLES
    kind,         \* which hook is mounted: "doc", "list" or "call"
    now,          \* wall clock, in ticks
    srv,          \* the remote authority's state for the identity
    store,        \* IndexedDB table "docs": record id -> optional record
    lastFetched,  \* useGetLastFetched state: <<"null">>, <<"undefined">>, <<"rec", r>>
    shouldLoad,   \* useState(false) of the offline hook
    cache,        \* SWR cache of the hook's keys: slot -> [data, err]
    inflight,     \* SWR request in flight for the slot's key
    hint,         \* lastModified argument of useFrappeGetCallOffline
    nFull,        \* number of full remote fetches invoked since the mount
    mutated,      \* the caller invoked mutate() since the mount
    deleted,      \* the caller invoked delete() since the mount
    nReval,       \* SWR background revalidations since the mount
    nCalls,       \* caller invocations of mutate() and delete() since the mount
    ops,          \* store operations performed by the last action
    ident,        \* which identity (name, args or params) the hook is rendered with
    reads,        \* identities whose store read (useGetLastFetched) is pending
    crashed,      \* an effect of the hook threw: React has unmounted the component
    currentUser,  \* useFrappeAuth: the logged-in user, <<>> after logout
    auth,         \* useFrappeAuth with getUserCookie: cookie, userID, SWR entry, server session
    mutation,     \* one mutation hook: its React state and the promises of its calls
    socket,       \* useFrappeDocumentEventListener: the socket's listeners and what was emitted
    search,       \* useSearch: text, debounced text, timers and the search_link calls made
    parked,       \* SWR's cache entries for the keys of the identity not rendered now
    docs,         \* table "docs" as two offline hooks with different requests use it
    events        \* useFrappeEventListener in two components: the socket's listeners of one event

\* the variables of the offline hooks and their store
hookVars == <<kind, now, srv, store, lastFetched, shouldLoad, cache, inflight,
              hint, nFull, mutated, deleted, nReval, nCalls, ops,
              ident, reads, crashed, currentUser>>

\* the variables of the other hooks
otherVars == <<auth, mutation, socket, search, parked, docs, events>>

\* everything but the variable of one of the other hooks
notAuth == <<hookVars, mutation, socket, search, parked, docs, events>>
notMutation == <<hookVars, auth, socket, search, parked, docs, events>>
notSocket == <<hookVars, auth, mutation, search, parked, docs, events>>
notSearch == <<hookVars, auth, mutation, socket, parked, docs, events>>
notParked == <<auth, mutation, socket, search, docs, events>>
notDocs == <<hookVars, auth, mutation, socket, search, parked, events>>
notEvents == <<hookVars, auth, mutation, socket, search, parked, docs>>

vars == <<hookVars, otherVars>>

----------------------------------------------------------------------------
(* Bounds of the model *)

MaxTime == 2
TicksPerSec == 2
MaxVer == 1
MaxReval == 1
MaxFull == 3
MaxCalls == 1
MaxRequests == 3
MaxEmits == 6
MaxTyped == 3
MaxDelay == 2
MaxCallbacks == 3

----------------------------------------------------------------------------
(* Identities and record ids *)

Kinds == {"doc", "list", "call"}
Slots == {"perm", "sig", "sig2", "full"}

\* the identities a mounted hook is rendered with: the first from the mount, the
\* second after its name, args or params prop changed
Identities == {1, 2}

doctype == <<"User">>
docname(n) == IF n = 1 THEN <<"alice">> ELSE <<"bob">>
method  == <<"report.totals">>
params(n) == IF n = 1 THEN << <<"year", "2023">> >> ELSE << <<"year", "2024">> >>

\* GetDocListArgs: every field optional
ListArgs(n) ==
    [fields |-> <<>>,
     filters |-> IF n = 1 THEN <<"[[enabled,=,1]]">> ELSE <<"[[enabled,=,0]]">>,
     orFilters |-> <<>>,
     limit_start |-> <<>>, limit |-> <<>>, orderBy |-> <<>>, asDict |-> <<>>]

\* parameter values that are objects
Objects == {"{x:1}", "{x:2}"}

\* encodeURIComponent(v): String(v), which is "[object Object]" for an object,
\* percent-encoded; the unreserved characters the other tokens are made of stay
encodeURIComponent(t) == IF t \in Objects THEN "%5Bobject%20Object%5D" ELSE t

RECURSIVE encodeQueryData(_)
encodeQueryData(data) ==
    IF data = <<>> THEN <<>>
    ELSE <<encodeURIComponent(data[1][1]), "=", encodeURIComponent(data[1][2])>>
         \o (IF Len(data) > 1 THEN <<"&">> \o encodeQueryData(Tail(data)) ELSE <<>>)

getDocListQueryString(args) ==
       (IF args.fields # <<>> THEN <<"fields=", args.fields[1], "&">> ELSE <<>>)
    \o (IF args.filters # <<>> THEN <<"filters=", args.filters[1], "&">> ELSE <<>>)
    \o (IF args.orFilters # <<>> THEN <<"or_filters=", args.orFilters[1], "&">> ELSE <<>>)
    \o (IF args.limit_start # <<>> /\ args.limit_start # <<0>>
           THEN <<"limit_start=", ToString(args.limit_start[1]), "&">> ELSE <<>>)
    \o (IF args.limit # <<>> /\ args.limit # <<0>>
           THEN <<"limit=", ToString(args.limit[1]), "&">> ELSE <<>>)
    \o (IF args.orderBy # <<>>
           THEN <<"order_by=", args.orderBy[1].field, " ",
                  IF args.orderBy[1].order = <<>> THEN "asc" ELSE args.orderBy[1].order[1],
                  "&">>
           ELSE <<>>)
    \o (IF args.asDict = <<TRUE>> THEN <<"as_dict=", "true">> ELSE <<>>)

\* `${x}` of a plain object
ObjectToString(o) == <<"[object Object]">>

\* the template literal `${a}_${b}`
TemplateId(a, b) == a \o <<"_">> \o b

DocId(n)     == TemplateId(doctype, docname(n))
ListId(n)    == TemplateId(doctype, getDocListQueryString(ListArgs(n)))
CallId(n)    == TemplateId(method, encodeQueryData(params(n)))
CallErrId(n) == TemplateId(method, ObjectToString(params(n)))

AllIds == UNION {{DocId(n), ListId(n), CallId(n), CallErrId(n)} : n \in Identities}

\* the id that useGetLastFetched reads and that put writes for identity n
RecordIdOf(k, n) ==
    CASE k = "doc" -> DocId(n) [] k = "list" -> ListId(n) [] OTHER -> CallId(n)

\* ... for the identity the hook is rendered with
RecordId(k) == RecordIdOf(k, ident)

----------------------------------------------------------------------------
(* Conversions *)

\* A date a caller or the server passes is <<format, t>>, t the time in ticks it
\* names: a Date object, a 'YYYY-MM-DD HH:MM:SS.ffffff' string, or a
\* 'YYYY-MM-DD' string (t is then that day's midnight).

\* dateStr.split(' ')[1]: undefined when the string has no time part
timeComponents(date) == IF date[1] = "dateonly" THEN <<>> ELSE <<date[2]>>

\* convertDateToMiliseconds, on the time a well-formed string names: the Date
\* constructor drops the fraction of the seconds
convertDateToMiliseconds(dateStr) == (dateStr \div TicksPerSec) * TicksPerSec

\* timeComponents.split(':') on undefined: convertDateToMiliseconds throws a
\* TypeError
convertDateThrows(date) == date[1] # "Date" /\ timeComponents(date) = <<>>

formatedTimestamp(d) == (d \div TicksPerSec) * TicksPerSec

convertDateToMilisecondsForGetCall(date) ==
    IF date[1] # "Date" THEN convertDateToMiliseconds(date[2]) ELSE date[2]

checkTypeOfDate(date) ==
    IF date[1] # "Date" THEN date[2] ELSE formatedTimestamp(date[2])

\* { ...data }: own enumerable properties copied into a plain object
Spread(data) == [data EXCEPT !.shape = "object"]

CustomError(httpStatus, httpStatusText, message, exception) ==
    [httpStatus |-> httpStatus, httpStatusText |-> httpStatusText,
     message |-> message, exception |-> exception]

PermissionError403 ==
    CustomError(403, "FORBIDDEN", "there was an error",
                <<"frappe.exceptions.PermissionError: No permission for ">> \o doctype)

\* the Error an SWR fetcher rejects with
RemoteError == CustomError(500, "ERROR", "remote call failed", <<"remote">>)

----------------------------------------------------------------------------
(* The hook's render: a view h = [k, n, lf, sl, c, hint] of the props       *)
(* (kind, identity, hint), the React state (lastFetched, shouldLoad) and    *)
(* the SWR cache entries of the keys of that identity                       *)

Null      == <<"null">>
Undefined == <<"undefined">>

View(k, n, lf, sl, c, hn) ==
    [k |-> k, n |-> n, lf |-> lf, sl |-> sl, c |-> c, hint |-> hn]

NoData == [data |-> <<>>, err |-> FALSE]

\* lastFetched !== undefined && lastFetched !== null
lastFetchExist(h) == h.lf # Undefined /\ h.lf # Null

\* permission?.message.has_permission
hasPermission(h) == IF h.k = "call" THEN <<>> ELSE h.c["perm"].data

\* truthiness of an optional boolean
Truthy(opt) == opt = <<TRUE>>

\* useFrappeGetDocCount(..., hasPermission ? undefined : null)
listCount(h) == IF Truthy(hasPermission(h)) THEN h.c["sig"].data ELSE <<>>

countNotChanged(h) ==
    /\ lastFetchExist(h)
    /\ listCount(h) # <<>>
    /\ listCount(h) = h.lf[2].count

\* variant: a full-fetch key that is not gated by the permission answer
FullKeyActiveUngated(h) == h.sl

\* the full-fetch key of useFrappeGetDoc / useFrappeGetDocList / useFrappeGetCall
FullKeyActive(h) ==
    IF h.k = "call" THEN h.sl ELSE h.sl /\ Truthy(hasPermission(h))

\* the slots whose SWR key is not null in this render
ActiveSlots(h) ==
    CASE h.k = "doc" ->
           {"perm"}
           \cup (IF lastFetchExist(h) /\ Truthy(hasPermission(h)) THEN {"sig"} ELSE {})
           \cup (IF FullKeyActive(h) THEN {"full"} ELSE {})
      [] h.k = "list" ->
           {"perm"}
           \cup (IF Truthy(hasPermission(h)) THEN {"sig"} ELSE {})
           \cup (IF countNotChanged(h) THEN {"sig2"} ELSE {})
           \cup (IF FullKeyActive(h) THEN {"full"} ELSE {})
      [] OTHER ->
           IF FullKeyActive(h) THEN {"full"} ELSE {}

\* what useSWR returns for a slot: nothing while its key is null
Visible(h, s) == IF s \in ActiveSlots(h) THEN h.c[s] ELSE NoData

\* `modified` of the hook: get_value answer (doc) or the 1-row list (list)
modifiedSignal(h) == IF h.k = "doc" THEN Visible(h, "sig").data ELSE Visible(h, "sig2").data

\* dependency arrays of the shouldLoad effects
DecideDeps(h) ==
    CASE h.k = "doc"  -> <<h.lf, modifiedSignal(h), hasPermission(h), lastFetchExist(h)>>
      [] h.k = "list" -> <<lastFetchExist(h), h.lf, listCount(h), modifiedSignal(h), hasPermission(h)>>
      [] OTHER        -> <<h.lf, h.hint>>

\* variant: fetches whenever the modified signal is answered, equal or not
DocShouldLoadEffectAlways(h) ==
    IF ~Truthy(hasPermission(h))
    THEN [delete |-> IF lastFetchExist(h) THEN <<DocId(h.n)>> ELSE <<>>, load |-> FALSE,
          throw |-> FALSE]
    ELSE [delete |-> <<>>,
          load |-> h.lf = Undefined \/ (lastFetchExist(h) /\ modifiedSignal(h) # <<>>),
          throw |-> FALSE]

\* variant: ignores a signal that carries no modified value
DocShouldLoadEffectNoMissing(h) ==
    IF ~Truthy(hasPermission(h))
    THEN [delete |-> IF lastFetchExist(h) THEN <<DocId(h.n)>> ELSE <<>>, load |-> FALSE,
          throw |-> FALSE]
    ELSE [delete |-> <<>>,
          load |->
             \/ h.lf = Undefined
             \/ /\ lastFetchExist(h)
                /\ modifiedSignal(h) # <<>>
                /\ modifiedSignal(h)[1] # <<>>
                /\ modifiedSignal(h)[1][1] # h.lf[2].modified,
          throw |-> FALSE]

\* useFrappeGetDocOffline: the effect that sets shouldLoad
DocShouldLoadEffect(h) ==
    LET modified == modifiedSignal(h) IN
    IF ~Truthy(hasPermission(h))
    THEN [delete |-> IF lastFetchExist(h) THEN <<DocId(h.n)>> ELSE <<>>, load |-> FALSE,
          throw |-> FALSE]
    ELSE [delete |-> <<>>,
          load |->
             \/ h.lf = Undefined
             \/ /\ lastFetchExist(h)
                /\ modified # <<>>
                /\ modified[1] # <<>>
                /\ modified[1][1] # h.lf[2].modified
             \/ /\ lastFetchExist(h)
                /\ modified # <<>>
                /\ modified[1] = <<>>,
          throw |-> FALSE]

\* useFrappeGetDocListOffline: the effect that sets shouldLoad
ListShouldLoadEffect(h) ==
    LET modified == modifiedSignal(h) IN
    IF ~Truthy(hasPermission(h))
    THEN [delete |-> IF lastFetchExist(h) THEN <<ListId(h.n)>> ELSE <<>>, load |-> FALSE,
          throw |-> FALSE]
    ELSE [delete |-> <<>>,
          load |->
             \/ h.lf = Undefined
             \/ /\ lastFetchExist(h)
                /\ listCount(h) # <<>>
                /\ listCount(h) # h.lf[2].count
             \/ /\ lastFetchExist(h)
                /\ ~(listCount(h) # <<>> /\ listCount(h) # h.lf[2].count)
                /\ modified # <<>>
                /\ modified[1] # <<>>
                /\ convertDateToMiliseconds(modified[1][1].modified) > h.lf[2].lastFetchedOn,
          throw |-> FALSE]

\* variant: does not fetch when the store read found nothing
CallShouldLoadEffectNoMiss(h) ==
    [delete |-> <<>>,
     load |-> /\ lastFetchExist(h)
              /\ h.hint # <<>>
              /\ ~convertDateThrows(h.hint)
              /\ convertDateToMilisecondsForGetCall(h.hint) > h.lf[2].lastFetchedOn,
     throw |-> lastFetchExist(h) /\ h.hint # <<>> /\ convertDateThrows(h.hint)]

\* useFrappeGetCallOffline: the effect that sets shouldLoad
CallShouldLoadEffect(h) ==
    [delete |-> <<>>,
     load |->
        \/ h.lf = Undefined
        \/ /\ lastFetchExist(h)
           /\ h.hint # <<>>
           /\ ~convertDateThrows(h.hint)
           /\ convertDateToMilisecondsForGetCall(h.hint) > h.lf[2].lastFetchedOn,
     throw |-> lastFetchExist(h) /\ h.hint # <<>> /\ convertDateThrows(h.hint)]

ShouldLoadEffect(h) ==
    CASE h.k = "doc"  -> DocShouldLoadEffect(h)
      [] h.k = "list" -> ListShouldLoadEffect(h)
      [] OTHER        -> CallShouldLoadEffect(h)

Put(id, r) == [op |-> "put", id |-> id, rec |-> <<r>>]
Delete(id) == [op |-> "delete", id |-> id, rec |-> <<>>]

\* useFrappeGetDocOffline: the effect on [data]
DocStoreEffect(h, t) ==
    LET data == Visible(h, "full").data
        error == Visible(h, "full").err
    IN IF data # <<>>
       THEN <<Put(DocId(h.n), [lastFetchedOn |-> t, modified |-> data[1].modified,
                          count |-> <<1>>, data |-> Spread(data[1])])>>
       ELSE IF error /\ lastFetchExist(h) THEN <<Delete(DocId(h.n))>> ELSE <<>>

\* useFrappeGetDocListOffline: the effect on [data]
ListStoreEffect(h, t) ==
    LET data == Visible(h, "full").data
        error == Visible(h, "full").err
        modified == modifiedSignal(h)
    IN IF data # <<>>
       THEN <<Put(ListId(h.n), [lastFetchedOn |-> t,
                           modified |-> IF modified # <<>> /\ modified[1] # <<>>
                                        THEN modified[1][1].modified
                                        ELSE formatedTimestamp(t),
                           count |-> listCount(h),
                           data |-> Spread(data[1])])>>
       ELSE IF error /\ lastFetchExist(h) THEN <<Delete(ListId(h.n))>> ELSE <<>>

\* useFrappeGetCallOffline: the effect on [data]
CallStoreEffect(h, t) ==
    LET data == Visible(h, "full").data
        error == Visible(h, "full").err
    IN IF data # <<>>
       THEN <<Put(CallId(h.n), [lastFetchedOn |-> t,
                           modified |-> IF h.hint # <<>> THEN checkTypeOfDate(h.hint)
                                        ELSE formatedTimestamp(t),
                           count |-> <<1>>,
                           data |-> Spread(data[1])])>>
       ELSE IF error /\ lastFetchExist(h) THEN <<Delete(CallErrId(h.n))>> ELSE <<>>

StoreEffect(h, t) ==
    CASE h.k = "doc"  -> DocStoreEffect(h, t)
      [] h.k = "list" -> ListStoreEffect(h, t)
      [] OTHER        -> CallStoreEffect(h, t)

\* Dexie table operations, in the order issued
RECURSIVE Apply(_, _)
Apply(st, os) ==
    IF os = <<>> THEN st
    ELSE Apply([st EXCEPT ![os[1].id] = os[1].rec], Tail(os))

----------------------------------------------------------------------------
(* Re-render after an event.  h0 is the view of the last committed render,  *)
(* h1 the view after the event changed state or cache.  React runs the      *)
(* effects whose dependencies changed, in source order; setShouldLoad(true) *)
(* schedules a second render, in which SWR may get the full-fetch key and   *)
(* `data` may change again.  useSWR starts a request for a key that has     *)
(* just become non-null unless one is already in flight for it.  An effect  *)
(* that throws makes React unmount the component: no later event of the     *)
(* hook is handled.                                                         *)

\* the view of the current state
Cur == View(kind, ident, lastFetched, shouldLoad, cache, hint)

\* the render the event causes: requests started for keys that became non-null,
\* the shouldLoad effect if its dependencies changed, the [data] effect if data
\* changed
RenderA(h0, h1, inf1, t) ==
    [inflight |-> [s \in Slots |->
                      inf1[s] \/ (s \in ActiveSlots(h1) /\ s \notin ActiveSlots(h0))],
     dec |-> IF DecideDeps(h1) # DecideDeps(h0)
             THEN ShouldLoadEffect(h1)
             ELSE [delete |-> <<>>, load |-> FALSE, throw |-> FALSE],
     ops |-> IF Visible(h1, "full").data # Visible(h0, "full").data
             THEN StoreEffect(h1, t) ELSE <<>>]

\* the render that setShouldLoad(true) causes: h2 is h1 with the new shouldLoad,
\* a the outcome of the first render
RenderB(h1, h2, a, inf1, t) ==
    [sl |-> h2.sl,
     inflight |-> [s \in Slots |->
                      a.inflight[s] \/ (s \in ActiveSlots(h2) /\ s \notin ActiveSlots(h1))],
     ops |-> (IF a.dec.delete # <<>> THEN <<Delete(a.dec.delete[1])>> ELSE <<>>)
             \o a.ops
             \o (IF Visible(h2, "full").data # Visible(h1, "full").data
                 THEN StoreEffect(h2, t) ELSE <<>>),
     started |-> IF /\ ~inf1["full"]
                    /\ \/ a.inflight["full"]
                       \/ ("full" \in ActiveSlots(h2) /\ "full" \notin ActiveSlots(h1))
                 THEN 1 ELSE 0]

\* commit the outcome of an event: lf, sl, c are the state the event leaves
\* before the re-render, inf the requests in flight, pre the store operations
\* the event's own handler issued, extra the full fetches it started itself.
\* The clock is read by `new Date()` in the [data] effect only, so time is let
\* pass exactly there: t is the time the effect reads.  n is the identity the
\* hook is rendered with after the event
CommitAs(n, lf, sl, c, inf, pre, extra) ==
    \E t \in now..MaxTime :
    \E h0 \in {Cur} :
    \E h1 \in {View(kind, n, lf, sl, c, hint)} :
    \E inf1 \in {inf} :
    \E a \in {RenderA(h0, h1, inf1, t)} :
    \E h2 \in {[h1 EXCEPT !.sl = h1.sl \/ a.dec.load]} :
    \E r \in {RenderB(h1, h2, a, inf1, t)} :
    \E all \in {pre \o r.ops} :
        /\ ~crashed
        /\ crashed' = (a.dec.throw)
        /\ t # now => \E i \in 1..Len(r.ops) : r.ops[i].op = "put"
        /\ nFull + extra + r.started <= MaxFull
        /\ now' = t
        /\ ident' = h1.n
        /\ lastFetched' = h1.lf
        /\ cache' = h1.c
        /\ shouldLoad' = r.sl
        /\ inflight' = r.inflight
        /\ ops' = [i \in 1..Len(all) |-> [op |-> all[i].op, id |-> all[i].id]]
        /\ store' = Apply(store, all)
        /\ nFull' = nFull + extra + r.started

\* ... of an event that leaves the identity as it is
Commit(lf, sl, c, inf, pre, extra) == CommitAs(ident, lf, sl, c, inf, pre, extra)

----------------------------------------------------------------------------
(* What the hooks return *)

\* the SWRResponse of the full-fetch hook
SWRFull(h, inf) ==
    LET v == Visible(h, "full")
        validating == "full" \in ActiveSlots(h) /\ inf["full"]
    IN [data |-> v.data,
        error |-> IF v.err THEN <<RemoteError>> ELSE <<>>,
        isValidating |-> validating,
        isLoading |-> validating /\ v.data = <<>>]

DocResult(h, inf) ==
    LET f == SWRFull(h, inf) IN
    [isLoadedFromServer |-> h.sl,
     data |-> IF h.sl THEN f.data
              ELSE IF lastFetchExist(h) THEN <<h.lf[2].data>> ELSE <<>>,
     error |-> IF Truthy(hasPermission(h)) THEN f.error ELSE <<PermissionError403>>,
     isLoading |-> IF h.sl THEN f.isLoading ELSE h.lf = Undefined,
     isValidating |-> IF h.sl THEN f.isValidating ELSE FALSE]

ListResult(h, inf) ==
    LET f == SWRFull(h, inf) IN
    [isLoadedFromServer |-> h.sl,
     data |-> IF h.sl THEN f.data
              ELSE IF lastFetchExist(h) THEN <<h.lf[2].data>> ELSE <<>>,
     error |-> IF Truthy(hasPermission(h)) THEN f.error ELSE <<PermissionError403>>,
     isLoading |-> IF h.sl THEN f.isLoading ELSE h.lf = Undefined,
     isValidating |-> IF h.sl THEN f.isValidating ELSE FALSE]

CallResult(h, inf) ==
    LET f == SWRFull(h, inf) IN
    [isLoadedFromServer |-> h.sl,
     data |-> IF h.sl THEN f.data
              ELSE IF lastFetchExist(h) THEN <<h.lf[2].data>> ELSE <<>>,
     error |-> f.error,
     isLoading |-> IF h.sl THEN f.isLoading ELSE h.lf = Undefined,
     isValidating |-> IF h.sl THEN f.isValidating ELSE FALSE]

\* the result the mounted hook returns in the current state
Result ==
    CASE kind = "doc"  -> DocResult(Cur, inflight)
      [] kind = "list" -> ListResult(Cur, inflight)
      [] OTHER         -> CallResult(Cur, inflight)

\* the record of the identity, as the hook read it at mount
Cached == lastFetched[2]

\* no request of the hook is pending
Settled == reads = {} /\ \A s \in Slots : ~inflight[s]

\* a store operation of the last action
Did(o) == \E i \in 1..Len(ops) : ops[i].op = o

----------------------------------------------------------------------------
(* The remote authority *)

Payload == [shape |-> IF kind = "list" THEN "array" ELSE "object",
            name |-> ident,
            modified |-> srv.modified,
            body |-> srv.ver]

\* what the server answers to the request of a slot
ServerAnswer(s) ==
    CASE s = "perm" -> srv.perm
      [] s = "sig"  -> IF kind = "doc"
                       THEN (IF srv.exists THEN <<srv.modified>> ELSE <<>>)
                       ELSE srv.count
      [] s = "sig2" -> IF srv.count = 0 THEN <<>> ELSE <<[modified |-> srv.modified]>>
      [] OTHER      -> Payload

\* the permission check is always answered; the data calls are refused while
\* the permission is revoked, and a document that does not exist is not found
CanAnswer(s) ==
    \/ s = "perm"
    \/ /\ kind # "call" => srv.perm
       /\ s = "full" => srv.exists

ServerEdit ==
    /\ srv.exists
    /\ srv.ver < MaxVer
    /\ now' \in now..MaxTime
    /\ srv' = [srv EXCEPT !.ver = @ + 1, !.modified = now']
    /\ ops' = <<>>
    /\ UNCHANGED <<kind, store, lastFetched, shouldLoad, cache, inflight,
                   hint, nFull, mutated, deleted, nReval, nCalls,
                   ident, reads, crashed, currentUser>>
    /\ UNCHANGED otherVars

ServerInsert ==
    /\ kind = "list"
    /\ srv.ver < MaxVer
    /\ now' \in now..MaxTime
    /\ srv' = [srv EXCEPT !.ver = @ + 1, !.count = @ + 1, !.modified = now']
    /\ ops' = <<>>
    /\ UNCHANGED <<kind, store, lastFetched, shouldLoad, cache, inflight,
                   hint, nFull, mutated, deleted, nReval, nCalls,
                   ident, reads, crashed, currentUser>>
    /\ UNCHANGED otherVars

ServerDeleteDoc ==
    /\ kind = "doc"
    /\ srv.exists
    /\ srv' = [srv EXCEPT !.exists = FALSE]
    /\ ops' = <<>>
    /\ UNCHANGED <<kind, now, store, lastFetched, shouldLoad, cache, inflight,
                   hint, nFull, mutated, deleted, nReval, nCalls,
                   ident, reads, crashed, currentUser>>
    /\ UNCHANGED otherVars

ServerSetPermission ==
    /\ kind # "call"
    /\ srv' = [srv EXCEPT !.perm = ~@]
    /\ ops' = <<>>
    /\ UNCHANGED <<kind, now, store, lastFetched, shouldLoad, cache, inflight,
                   hint, nFull, mutated, deleted, nReval, nCalls,
                   ident, reads, crashed, currentUser>>
    /\ UNCHANGED otherVars

----------------------------------------------------------------------------
(* useFrappeAuth with getUserCookie (src/unnamed/part_002).  auth is a       *)
(* record: useToken (tokenParams.useToken), cookie (document.cookie, a      *)
(* sequence of <<name, value>> pairs), session (the user the server knows   *)
(* the client as, <<>> for none), mounted (the mount effect has run),       *)
(* userID (React state), data / err / inflight (the SWR entry of the        *)
(* get_logged_user key and its latest request), and the history flags       *)
(* requested (a get_logged_user request was issued), found (getUserCookie   *)
(* found a user name) and loggedOut (logout() has resolved and no login     *)
(* has succeeded since).                                                    *)

\* a JS string value
Str(x) == <<"str", x>>

\* the user that can log in
UserName == "alice"

\* what document.cookie can hold
Cookies ==
    {<<>>,
     << <<"sid", "Guest">>, <<"user_id", "Guest">> >>,
     << <<"user_id", "">> >>,
     << <<"sid", "s1">>, <<"user_id", UserName>> >>}

\* document.cookie.split(';').find(c => c.trim().startsWith('user_id='))
RECURSIVE findUserCookie(_)
findUserCookie(cs) ==
    IF cs = <<>> THEN <<>>
    ELSE IF cs[1][1] = "user_id" THEN <<cs[1]>>
    ELSE findUserCookie(Tail(cs))

\* getUserCookie: the value it passes to setUserID
userIDFromCookie(cs) ==
    LET userCookie == findUserCookie(cs) IN
    IF userCookie # <<>>
    THEN IF userCookie[1][2] # "" /\ userCookie[1][2] # "Guest"
         THEN Str(userCookie[1][2])
         ELSE <<"null">>
    ELSE <<"null">>

\* variant: a key that is never null
AuthKeyAlways(a) == TRUE

\* the useSWR key function: the key is null unless the token is used or userID
\* is truthy
AuthKeyActive(a) ==
    \/ a.useToken
    \/ (a.userID[1] = "str" /\ a.userID[2] # "")

\* what useFrappeAuth returns
AuthResult(a) ==
    [isLoading |-> a.userID = <<"undefined">>
                   \/ (AuthKeyActive(a) /\ a.inflight /\ a.data = <<"undefined">>),
     currentUser |-> IF AuthKeyActive(a) THEN a.data ELSE <<"undefined">>,
     isValidating |-> AuthKeyActive(a) /\ a.inflight,
     error |-> AuthKeyActive(a) /\ a.err]

\* the render after a state change from a0 to a1: useSWR starts a request when
\* the key has become non-null
AuthRender(a0, a1) ==
    IF AuthKeyActive(a1) /\ ~AuthKeyActive(a0)
    THEN [a1 EXCEPT !.inflight = TRUE, !.requested = TRUE]
    ELSE a1

\* setUserID(u) and the render it causes
SetUserID(a, u) ==
    AuthRender(a, [a EXCEPT !.userID = u,
                            !.found = a.found \/ (u[1] = "str" /\ u[2] # "")])

\* the first render of the hook, before its mount effect
AuthFirstRender(useToken, cookie, session) ==
    AuthRender([useToken |-> FALSE, userID |-> <<"null">>],
               [useToken |-> useToken, cookie |-> cookie, session |-> session,
                mounted |-> FALSE, userID |-> <<"undefined">>,
                data |-> <<"undefined">>, err |-> FALSE, inflight |-> FALSE,
                requested |-> FALSE, found |-> FALSE, loggedOut |-> FALSE])

\* useFrappeAuth not in use
AuthAtRest == AuthFirstRender(FALSE, <<>>, <<>>)

\* the mount effect: setUserID(null) with a token, getUserCookie() without
AuthMountEffect ==
    /\ ~auth.mounted
    /\ \E a \in {[auth EXCEPT !.mounted = TRUE]} :
           auth' = SetUserID(a, IF a.useToken THEN <<"null">>
                                ELSE userIDFromCookie(a.cookie))
    /\ UNCHANGED notAuth

\* getUserCookie, called by the application
getUserCookie ==
    /\ auth.mounted
    /\ auth' = SetUserID(auth, userIDFromCookie(auth.cookie))
    /\ UNCHANGED notAuth

\* the get_logged_user request is answered with the user of the session
AuthSWRSuccess ==
    /\ auth.inflight
    /\ auth.session # <<>>
    /\ auth' = [auth EXCEPT !.inflight = FALSE, !.err = FALSE,
                            !.data = Str(auth.session[1])]
    /\ UNCHANGED notAuth

\* the get_logged_user request fails (403 without a session, or the network);
\* SWR keeps the data; onError runs setUserID(null) if the hook still has the key
AuthSWRError ==
    /\ auth.inflight
    /\ \E a \in {[auth EXCEPT !.inflight = FALSE, !.err = TRUE]} :
           auth' = IF AuthKeyActive(auth) THEN SetUserID(a, <<"null">>) ELSE a
    /\ UNCHANGED notAuth

\* updateCurrentUser(): the bound mutate of useSWR, a new request unless the key
\* is null
updateCurrentUser ==
    /\ auth.mounted
    /\ auth' = IF AuthKeyActive(auth)
               THEN [auth EXCEPT !.inflight = TRUE, !.requested = TRUE]
               ELSE auth
    /\ UNCHANGED notAuth

\* login, with credentials the server accepts: the server opens the session and
\* sets the cookies; then getUserCookie()
login ==
    /\ auth.mounted
    /\ \E a \in {[auth EXCEPT !.session = <<UserName>>,
                                !.cookie = << <<"sid", "s1">>, <<"user_id", UserName>> >>,
                                !.loggedOut = FALSE]} :
           auth' = SetUserID(a, userIDFromCookie(a.cookie))
    /\ UNCHANGED notAuth

\* logout of this version, once auth.logout() has resolved:
\* updateCurrentUser(null), then setUserID(null).  The server has closed the
\* session and cleared or reset the user_id cookie; a token may stay valid.
\* updateCurrentUser(null) writes null into the SWR entry and revalidates, unless
\* the key is null
logoutWithCookie ==
    /\ auth.mounted
    /\ \E c \in {<<>>, << <<"sid", "Guest">>, <<"user_id", "Guest">> >>} :
       \E ses \in IF auth.useToken THEN {<<>>, auth.session} ELSE {<<>>} :
       \E a \in {[auth EXCEPT !.cookie = c, !.session = ses, !.loggedOut = TRUE]} :
       \E b \in {IF AuthKeyActive(a)
                  THEN [a EXCEPT !.data = <<"null">>, !.err = FALSE,
                                 !.inflight = TRUE, !.requested = TRUE]
                  ELSE a} :
           auth' = SetUserID(b, <<"null">>)
    /\ UNCHANGED notAuth

\* the server ends the session on its own (expiry, logout from another client)
ServerSessionEnds ==
    /\ auth.session # <<>>
    /\ auth' = [auth EXCEPT !.session = <<>>]
    /\ UNCHANGED notAuth

----------------------------------------------------------------------------
(* The mutation hooks: useFrappeCreateDoc / UpdateDoc / DeleteDoc (hook      *)
(* "doc"), useFrappePostCall / PutCall / DeleteCall (hook "call") and        *)
(* useFrappeFileUpload (hook "file").  mutation is a record: the React       *)
(* state loading, error, isCompleted, result, progress (null is <<>>), the   *)
(* promise each call returned, and overlapped: a call was started while      *)
(* another was pending, and not all calls have settled since.                *)

MutationHooks == {"doc", "call", "file"}

Requests == 1..MaxRequests

\* the requests of calls that have not settled
Pending(m) == {i \in Requests : m.promise[i] = <<"pending">>}

\* what the server answers or fails call i with
Response(i) == <<"response", i>>
Failure(i) == <<"error", i>>

\* reset
Reset(m) ==
    [m EXCEPT !.loading = FALSE, !.error = <<>>, !.isCompleted = FALSE,
              !.result = IF m.hook = "call" THEN <<>> ELSE m.result,
              !.progress = IF m.hook = "file" THEN 0 ELSE m.progress]

\* the synchronous part of createDoc / call / upload
OnCall(m) ==
    IF m.hook = "file"
    THEN [Reset(m) EXCEPT !.loading = TRUE]
    ELSE [m EXCEPT !.error = <<>>, !.isCompleted = FALSE, !.loading = TRUE,
                   !.result = IF m.hook = "call" THEN <<>> ELSE m.result]

\* the then callback
OnFulfilled(m, message) ==
    [m EXCEPT !.loading = FALSE, !.isCompleted = TRUE,
              !.result = IF m.hook = "call" THEN <<message>> ELSE m.result,
              !.progress = IF m.hook = "file" THEN 100 ELSE m.progress]

\* variant: a catch callback that leaves loading as it is
OnRejectedStillLoading(m, error) ==
    [m EXCEPT !.error = <<error>>,
              !.isCompleted = IF m.hook = "file" THEN m.isCompleted ELSE FALSE]

\* the catch callback; it re-throws the error
OnRejected(m, error) ==
    [m EXCEPT !.loading = FALSE, !.error = <<error>>,
              !.isCompleted = IF m.hook = "file" THEN m.isCompleted ELSE FALSE]

\* a freshly mounted mutation hook
MutationMounted(hook) ==
    [hook |-> hook, loading |-> FALSE, error |-> <<>>, isCompleted |-> FALSE,
     result |-> <<>>, progress |-> 0,
     promise |-> [i \in Requests |-> <<"none">>], overlapped |-> FALSE]

\* the application calls createDoc / updateDoc / deleteDoc / call / upload
MutationCall ==
    \E i \in Requests :
        /\ mutation.promise[i] = <<"none">>
        /\ \A j \in Requests : j < i => mutation.promise[j] # <<"none">>
        /\ mutation' = [OnCall(mutation) EXCEPT
                            !.promise[i] = <<"pending">>,
                            !.overlapped = Pending(mutation) # {}]
        /\ UNCHANGED notMutation

\* the request of call i succeeds
MutationResolve(i) ==
    /\ i \in Pending(mutation)
    /\ mutation' = [OnFulfilled(mutation, Response(i)) EXCEPT
                        !.promise[i] = <<"resolved", Response(i)>>]
    /\ UNCHANGED notMutation

\* the request of call i fails
MutationReject(i) ==
    /\ i \in Pending(mutation)
    /\ mutation' = [OnRejected(mutation, Failure(i)) EXCEPT
                        !.promise[i] = <<"rejected", Failure(i)>>]
    /\ UNCHANGED notMutation

\* useFrappeFileUpload: the progress callback, half of the file sent
UploadProgress ==
    /\ mutation.hook = "file"
    /\ Pending(mutation) # {}
    /\ mutation.progress # 50
    /\ mutation' = [mutation EXCEPT !.progress = 50]
    /\ UNCHANGED notMutation

\* the application calls reset
MutationReset ==
    /\ mutation' = Reset(mutation)
    /\ mutation' # mutation
    /\ UNCHANGED notMutation

----------------------------------------------------------------------------
(* useFrappeDocumentEventListener (src/unnamed/part_002).  socket is a       *)
(* record: enabled (FrappeProvider created a socket), phase of the component *)
(* ("rendered" before its effects ran, "mounted", "unmounted"), the props    *)
(* docname and emitOpenCloseEventsOnMount, reconnect: the docnames of the    *)
(* listeners registered on socket.io for "reconnect", in order, and emitted: *)
(* the events sent to the server, in order, each with the function of the    *)
(* hook that sent it.                                                        *)

\* socket?.emit(event, doctype, docname)
Emit(sk, evs) ==
    IF sk.enabled THEN [sk EXCEPT !.emitted = @ \o evs] ELSE sk

\* the body of the effect for the docname of this render
SubscribeEffect(sk) ==
    LET sub == Emit(sk, <<<<"doc_subscribe", sk.docname, "effect">>>>)
        reg == IF sk.enabled THEN [sub EXCEPT !.reconnect = Append(@, sk.docname)] ELSE sub
    IN  IF sk.emitOpenCloseEventsOnMount
        THEN Emit(reg, <<<<"doc_open", sk.docname, "effect">>>>)
        ELSE reg

\* variant: a cleanup that only unsubscribes
CleanupWithoutClose(sk) ==
    Emit(sk, <<<<"doc_unsubscribe", sk.docname, "cleanup">>>>)

\* the cleanup the effect returns
SubscribeCleanup(sk) ==
    Emit(sk, <<<<"doc_unsubscribe", sk.docname, "cleanup">>>>
               \o (IF sk.emitOpenCloseEventsOnMount
                   THEN <<<<"doc_close", sk.docname, "cleanup">>>> ELSE <<>>))

\* the hook rendered for the first time
ListenerRendered(enabled, d, openClose) ==
    [enabled |-> enabled, phase |-> "rendered", docname |-> d,
     emitOpenCloseEventsOnMount |-> openClose, reconnect |-> <<>>, emitted |-> <<>>]

SocketStep(sk) ==
    /\ Len(sk.emitted) <= MaxEmits
    /\ socket' = sk
    /\ UNCHANGED notSocket

\* the effect runs after the first render
ListenerMount ==
    /\ socket.phase = "rendered"
    /\ SocketStep([SubscribeEffect(socket) EXCEPT !.phase = "mounted"])

\* the component is rendered with another docname: cleanup, then the effect
ListenerDocnameChange ==
    \E d \in Identities :
        /\ socket.phase = "mounted"
        /\ d # socket.docname
        /\ \E cleaned \in {SubscribeCleanup(socket)} :
               SocketStep(SubscribeEffect([cleaned EXCEPT !.docname = d]))

\* the component is rendered with another emitOpenCloseEventsOnMount: the
\* cleanup of the previous render's closure, then the effect
ListenerFlagChange ==
    /\ socket.phase = "mounted"
    /\ \E cleaned \in {SubscribeCleanup(socket)} :
           SocketStep(SubscribeEffect([cleaned EXCEPT
               !.emitOpenCloseEventsOnMount = ~socket.emitOpenCloseEventsOnMount]))

\* the connection is lost and restored: socket.io fires "reconnect"
SocketReconnect ==
    /\ socket.enabled
    /\ socket.phase # "rendered"
    /\ SocketStep(Emit(socket, [i \in 1..Len(socket.reconnect) |->
                                    <<"doc_subscribe", socket.reconnect[i], "reconnect">>]))

emitDocOpen ==
    /\ socket.phase = "mounted"
    /\ socket.enabled
    /\ SocketStep(Emit(socket, <<<<"doc_open", socket.docname, "emitDocOpen">>>>))

emitDocClose ==
    /\ socket.phase = "mounted"
    /\ socket.enabled
    /\ SocketStep(Emit(socket, <<<<"doc_close", socket.docname, "emitDocClose">>>>))

\* the component unmounts
ListenerUnmount ==
    /\ socket.phase = "mounted"
    /\ SocketStep([SubscribeCleanup(socket) EXCEPT !.phase = "unmounted"])

----------------------------------------------------------------------------
(* useSearch and useDebounce.  search is a record: the props text and delay  *)
(* (in ticks), debouncedValue, timers: the pending setTimeout handlers, each *)
(* with the value of its closure and the ticks left before it may fire,      *)
(* stable: the ticks since text last changed (counted up to MaxDelay),       *)
(* typed: the texts the component was re-rendered with, and requests: the    *)
(* txt of every search_link call issued, in order.                           *)

Texts == {"", "a", "ab"}

Delays == 1..MaxDelay

\* variant: an effect without cleanup
KeepTimeout(timers) == timers

\* return () => { clearTimeout(handler) }
clearTimeout(timers) == {}

\* const handler = setTimeout(() => { setDebouncedValue(value) }, delay)
setTimeout(timers, value, delay) ==
    timers \cup {[value |-> value, left |-> delay]}

\* first render and its effect: debouncedValue is the text, the call is issued
SearchMounted(text, delay) ==
    [text |-> text, delay |-> delay, debouncedValue |-> text,
     timers |-> setTimeout({}, text, delay), stable |-> 0,
     typed |-> <<>>, requests |-> <<text>>]

\* the component renders useSearch with another text
SearchTextChange ==
    \E t \in Texts :
        /\ t # search.text
        /\ Len(search.typed) < MaxTyped
        /\ search' = [search EXCEPT
                          !.text = t, !.stable = 0, !.typed = Append(@, t),
                          !.timers = setTimeout(clearTimeout(@), t, search.delay)]
        /\ UNCHANGED notSearch

\* the component renders useSearch with another debounce
SearchDelayChange ==
    \E d \in Delays :
        /\ d # search.delay
        /\ search' = [search EXCEPT
                          !.delay = d,
                          !.timers = setTimeout(clearTimeout(@), search.text, d)]
        /\ UNCHANGED notSearch

\* a timeout handler runs: setDebouncedValue(value); if the value is new the
\* hook renders again and useFrappeGetCall issues the call for the new key
SearchTimeout ==
    \E tm \in search.timers :
        /\ tm.left = 0
        /\ search' = [search EXCEPT
                          !.timers = @ \ {tm},
                          !.debouncedValue = tm.value,
                          !.requests = IF tm.value = search.debouncedValue
                                       THEN @ ELSE Append(@, tm.value)]
        /\ UNCHANGED notSearch

\* a tick of time passes; a due handler may run late
SearchTick ==
    /\ search' = [search EXCEPT
                      !.stable = IF @ < MaxDelay THEN @ + 1 ELSE @,
                      !.timers = {[value |-> tm.value,
                                   left |-> IF tm.left > 0 THEN tm.left - 1 ELSE 0] :
                                  tm \in @}]
    /\ search' # search
    /\ UNCHANGED notSearch

----------------------------------------------------------------------------
(* Record ids of arbitrary requests.  Strings are sequences of characters,   *)
(* so that `${a}_${b}` is concatenation.  docs is a record: the requests a   *)
(* and b of two mounted offline hooks, rows: the table "docs" as a set of    *)
(* <<id, request>> with one row per id, and kept: the requests whose record  *)
(* was put and not deleted by their own hook since.                          *)

\* doctypes, methods and document names: letters, with or without an underscore
Strs == {<<"a">>, <<"a", "a">>, <<"a", "_", "a">>}

DocRequest(dt, name) == [kind |-> "doc", doctype |-> dt, name |-> name]

CallRequest(m, key, value) == [kind |-> "call", method |-> m, params |-> << <<key, value>> >>]

OfflineRequests ==
    {DocRequest(dt, name) : dt \in Strs, name \in Strs}
    \cup {CallRequest(m, k, v) : m \in Strs, k \in {"a"}, v \in {"a"} \cup Objects}

\* the _id of put, get and delete for a request
RequestId(r) ==
    IF r.kind = "doc" THEN TemplateId(r.doctype, r.name)
    ELSE TemplateId(r.method, encodeQueryData(r.params))

TwoHooks(a, b) == [a |-> a, b |-> b, rows |-> {}, kept |-> {}]

\* indexdb.table("docs").put({ _id, ... }) by the hook of request r
TablePut ==
    \E r \in {docs.a, docs.b} :
        /\ r \notin docs.kept
        /\ docs' = [docs EXCEPT
                        !.rows = {row \in @ : row[1] # RequestId(r)} \cup {<<RequestId(r), r>>},
                        !.kept = @ \cup {r}]
        /\ UNCHANGED notDocs

\* indexdb.table("docs").delete(_id) by the hook of request r
TableDelete ==
    \E r \in {docs.a, docs.b} :
        /\ r \in docs.kept
        /\ docs' = [docs EXCEPT
                        !.rows = {row \in @ : row[1] # RequestId(r)},
                        !.kept = @ \ {r}]
        /\ UNCHANGED notDocs

----------------------------------------------------------------------------
(* useFrappeEventListener used by two components for the same event name.   *)
(* events is a record: mounted: the components whose effect has run,         *)
(* callback: the callback prop of each component (a version number),         *)
(* listeners: the socket's listeners of the event as <<component, callback>>,*)
(* and delivered: the components whose current callback the last event of    *)
(* the server reached.                                                       *)

Components == {1, 2}

NoListeners ==
    [mounted |-> {}, callback |-> [c \in Components |-> 1],
     listeners |-> {}, delivered |-> {}]

\* socket.on(eventName, callback) by component c
on(ls, c, cb) == ls \cup {<<c, cb>>}

\* listener.off(eventName): with no callback given, socket.io's emitter
\* removes every listener of the event
off(ls) == {}

\* the effect of component c runs after its first render
EventListenerMount ==
    \E c \in Components \ events.mounted :
        /\ events' = [events EXCEPT
                          !.mounted = @ \cup {c},
                          !.listeners = on(@, c, events.callback[c])]
        /\ UNCHANGED notEvents

\* component c is rendered with another callback: cleanup, then the effect
EventListenerCallbackChange ==
    \E c \in events.mounted :
        /\ events.callback[c] < MaxCallbacks
        /\ events' = [events EXCEPT
                          !.callback[c] = @ + 1,
                          !.listeners = on(off(@), c, events.callback[c] + 1)]
        /\ UNCHANGED notEvents

\* component c unmounts: cleanup
EventListenerUnmount ==
    \E c \in events.mounted :
        /\ events' = [events EXCEPT
                          !.mounted = @ \ {c},
                          !.listeners = off(@),
                          !.delivered = @ \ {c}]
        /\ UNCHANGED notEvents

\* the server publishes the event: the socket calls its listeners
ServerEvent ==
    /\ events' = [events EXCEPT
                      !.delivered = {c \in Components :
                                        <<c, events.callback[c]>> \in events.listeners}]
    /\ events' # events
    /\ UNCHANGED notEvents

----------------------------------------------------------------------------
(* The hook instance *)

EmptyCache == [s \in Slots |-> NoData]

\* requests in flight after the first render: the permission check
MountInflight(k) == [s \in Slots |-> s = "perm" /\ k # "call"]

\* lastModified values a caller can pass: none, or a time as a Date, as a
\* 'YYYY-MM-DD HH:MM:SS' string or as a 'YYYY-MM-DD' string
Hints(k) == IF k = "call"
            THEN {<<>>} \cup {<<ty, t>> : ty \in {"string", "Date", "dateonly"},
                                          t \in 0..MaxTime}
            ELSE {<<>>}

\* the server when the page is loaded
InitServer == [perm |-> TRUE, exists |-> TRUE, ver |-> 0, modified |-> 0, count |-> 1]

InitPayload(k) == [shape |-> IF k = "list" THEN "array" ELSE "object",
                   name |-> 1,
                   modified |-> InitServer.modified,
                   body |-> InitServer.ver]

\* What an earlier session of the same hook can have left in the table: nothing,
\* or the record its own [data] effect wrote when its full fetch was answered
\* (for a list: after or before the count was answered)
EarlierSessionViews(k, hn) ==
    {View(k, 1, Undefined, TRUE,
          [s \in Slots |->
              CASE s = "perm" -> [data |-> IF k = "call" THEN <<>> ELSE <<TRUE>>, err |-> FALSE]
                [] s = "sig"  -> [data |-> IF k = "list" /\ counted THEN <<InitServer.count>> ELSE <<>>,
                                  err |-> FALSE]
                [] s = "sig2" -> NoData
                [] OTHER      -> [data |-> <<InitPayload(k)>>, err |-> FALSE]],
          hn) : counted \in IF k = "list" THEN BOOLEAN ELSE {TRUE}}

InitStores(k, hn) ==
    {[id \in AllIds |-> <<>>]}
    \cup {Apply([id \in AllIds |-> <<>>], StoreEffect(h, 0)) : h \in EarlierSessionViews(k, hn)}

\* stores in which an earlier session also left the record of the second identity
InitStoresBoth(k, hn) ==
    {Apply(st, StoreEffect([h EXCEPT !.n = 2, !.c["full"].data[1].name = 2], 0)) :
        st \in InitStores(k, hn), h \in EarlierSessionViews(k, hn)}

HookInitFrom(stores) ==
    /\ kind \in Kinds
    /\ now = 0
    /\ srv = InitServer
    /\ hint \in Hints(kind)
    /\ store \in stores
    /\ lastFetched = Null
    /\ shouldLoad = FALSE
    /\ cache = EmptyCache
    /\ inflight = MountInflight(kind)
    /\ nFull = 0
    /\ mutated = FALSE
    /\ deleted = FALSE
    /\ nReval = 0
    /\ nCalls = 0
    /\ ops = <<>>
    /\ ident = 1
    /\ reads = {1}
    /\ crashed = FALSE
    /\ currentUser = <<"Administrator">>

HookInit == HookInitFrom(InitStores(kind, hint))

\* a mounted offline hook; the other hooks are not in use
\* the other hooks, not in use
OthersAtRest ==
    /\ auth = AuthAtRest
    /\ mutation = MutationMounted("doc")
    /\ socket = ListenerRendered(FALSE, 1, TRUE)
    /\ search = SearchMounted("", 1)
    /\ parked = EmptyCache
    /\ docs = TwoHooks(DocRequest(<<"a">>, <<"a">>), DocRequest(<<"a">>, <<"_">>))
    /\ events = NoListeners

Init == HookInit /\ OthersAtRest

\* one offline hook at rest, for the specifications of the other hooks
OneHook ==
    /\ HookInit
    /\ kind = "call"
    /\ hint = <<>>
    /\ store = [id \in AllIds |-> <<>>]

\* useGetLastFetched: db.table("docs").get(id).then(setLastFetched)
GetLastFetchedResolve ==
    \E n \in reads :
        /\ reads' = reads \ {n}
        /\ Commit(IF store[RecordIdOf(kind, n)] = <<>> THEN Undefined
                  ELSE <<"rec", store[RecordIdOf(kind, n)][1]>>,
                  shouldLoad, cache, inflight, <<>>, 0)
        /\ UNCHANGED <<kind, srv, hint, mutated, deleted, nReval, nCalls,
                       currentUser>>
        /\ UNCHANGED otherVars

\* an SWR request settles: the fetcher resolved with the server's answer
SWRSuccess(s) ==
    /\ inflight[s]
    /\ CanAnswer(s)
    /\ Commit(lastFetched, shouldLoad,
              [cache EXCEPT ![s] = [data |-> <<ServerAnswer(s)>>, err |-> FALSE]],
              [inflight EXCEPT ![s] = FALSE], <<>>, 0)
    /\ UNCHANGED <<kind, srv, hint, mutated, deleted, nReval, nCalls,
                   reads, currentUser>>
    /\ UNCHANGED otherVars

\* an SWR request settles: the fetcher rejected; SWR keeps the last data
SWRError(s) ==
    /\ inflight[s]
    /\ Commit(lastFetched, shouldLoad,
              [cache EXCEPT ![s] = [data |-> cache[s].data, err |-> TRUE]],
              [inflight EXCEPT ![s] = FALSE], <<>>, 0)
    /\ UNCHANGED <<kind, srv, hint, mutated, deleted, nReval, nCalls,
                   reads, currentUser>>
    /\ UNCHANGED otherVars

\* SWR revalidates on focus / reconnect: every key the hook holds is fetched
\* again, unless a request for it is already in flight
SWRRevalidate ==
    /\ nReval < MaxReval
    /\ reads = {}
    /\ \A s \in Slots : ~inflight[s]
    /\ nReval' = nReval + 1
    /\ Commit(lastFetched, shouldLoad, cache,
              [s \in Slots |-> inflight[s] \/ s \in ActiveSlots(Cur)], <<>>,
              IF "full" \in ActiveSlots(Cur) /\ ~inflight["full"] THEN 1 ELSE 0)
    /\ UNCHANGED <<kind, srv, hint, mutated, deleted, nCalls,
                   reads, currentUser>>
    /\ UNCHANGED otherVars

\* variant: mutate() re-fetches only while the hook is already loading
forceRefreshWhenLoading ==
    /\ nCalls < MaxCalls
    /\ nCalls' = nCalls + 1
    /\ mutated' = TRUE
    /\ IF shouldLoad /\ FullKeyActive(Cur)
       THEN Commit(lastFetched, shouldLoad, cache,
                   [inflight EXCEPT !["full"] = TRUE], <<>>, 1)
       ELSE Commit(lastFetched, shouldLoad, cache, inflight, <<>>, 0)
    /\ UNCHANGED <<kind, srv, hint, deleted, nReval, reads, currentUser>>
    /\ UNCHANGED otherVars

\* mutate of the offline hooks
forceRefresh ==
    /\ nCalls < MaxCalls
    /\ nCalls' = nCalls + 1
    /\ mutated' = TRUE
    /\ IF shouldLoad
       THEN \* mutate() of useSWR: a new request for the key, if the key is not null
            IF FullKeyActive(Cur)
            THEN Commit(lastFetched, shouldLoad, cache,
                        [inflight EXCEPT !["full"] = TRUE], <<>>, 1)
            ELSE Commit(lastFetched, shouldLoad, cache, inflight, <<>>, 0)
       ELSE Commit(lastFetched, TRUE, cache, inflight, <<>>, 0)
    /\ UNCHANGED <<kind, srv, hint, deleted, nReval, reads, currentUser>>
    /\ UNCHANGED otherVars

\* mutate() called twice from one event handler: both calls run in the closure
\* of the same render, so both read the same shouldLoad.  Each mutate() of useSWR
\* drops the marker of the request in flight and starts a request of its own;
\* setShouldLoad(true) twice is one state update
forceRefreshTwice ==
    /\ nCalls < MaxCalls
    /\ nCalls' = nCalls + 1
    /\ mutated' = TRUE
    /\ IF shouldLoad
       THEN IF FullKeyActive(Cur)
            THEN Commit(lastFetched, shouldLoad, cache,
                        [inflight EXCEPT !["full"] = TRUE], <<>>, 2)
            ELSE Commit(lastFetched, shouldLoad, cache, inflight, <<>>, 0)
       ELSE Commit(lastFetched, TRUE, cache, inflight, <<>>, 0)
    /\ UNCHANGED <<kind, srv, hint, deleted, nReval, reads, currentUser>>
    /\ UNCHANGED otherVars

\* delete of the offline hooks
forceDelete ==
    /\ nCalls < MaxCalls
    /\ nCalls' = nCalls + 1
    /\ deleted' = TRUE
    /\ Commit(lastFetched, FALSE, cache, inflight,
              IF lastFetchExist(Cur) THEN <<Delete(RecordId(kind))>> ELSE <<>>, 0)
    /\ UNCHANGED <<kind, srv, hint, mutated, nReval, reads, currentUser>>
    /\ UNCHANGED otherVars

\* useGetLastFetched: db.table("docs").get(id) rejects.  The promise has a then
\* callback only, no catch: setLastFetched is not called and no state changes
GetLastFetchedReject ==
    /\ ~crashed
    /\ \E n \in reads : reads' = reads \ {n}
    /\ ops' = <<>>
    /\ UNCHANGED <<kind, now, srv, store, lastFetched, shouldLoad, cache, inflight,
                   hint, nFull, mutated, deleted, nReval, nCalls, ident, crashed,
                   currentUser>>
    /\ UNCHANGED otherVars

\* the SWR key of slot s does not depend on the identity: the list hook asks
\* has_permission with docname ""
KeyKept(k, s) == k = "list" /\ s = "perm"

\* The parent re-renders the mounted hook with another name, args or params.
\* useGetLastFetched starts a read for the new id; it neither cancels the read
\* in flight for the old id nor resets lastFetched, and shouldLoad is kept.
\* useSWR switches to the keys of the new identity: their cache entries are
\* empty, a request starts for each key that is not null, and what arrives for
\* the old keys is no longer rendered.
ChangeIdentity ==
    /\ ident = 1
    /\ reads' = reads \cup {2}
    /\ \E c \in {[s \in Slots |-> IF KeyKept(kind, s) THEN cache[s] ELSE NoData]} :
       \E h1 \in {View(kind, 2, lastFetched, shouldLoad, c, hint)} :
       \E act \in {ActiveSlots(h1)} :
           CommitAs(2, lastFetched, shouldLoad, c,
                    [s \in Slots |-> IF KeyKept(kind, s) THEN inflight[s] ELSE s \in act],
                    <<>>, IF "full" \in act THEN 1 ELSE 0)
    /\ UNCHANGED <<kind, srv, hint, mutated, deleted, nReval, nCalls, currentUser>>
    /\ UNCHANGED otherVars

\* the component renders the hook with the other identity, which it may have
\* rendered before: SWR serves what its cache holds for the keys of that
\* identity and revalidates them
ChangeIdentityTo ==
    \E n \in Identities \ {ident} :
        /\ reads' = reads \cup {n}
        /\ parked' = [s \in Slots |-> IF KeyKept(kind, s) THEN NoData ELSE cache[s]]
        /\ \E c \in {[s \in Slots |-> IF KeyKept(kind, s) THEN cache[s] ELSE parked[s]]} :
           \E h1 \in {View(kind, n, lastFetched, shouldLoad, c, hint)} :
           \E act \in {ActiveSlots(h1)} :
               CommitAs(n, lastFetched, shouldLoad, c,
                        [s \in Slots |-> IF KeyKept(kind, s) THEN inflight[s] ELSE s \in act],
                        <<>>, IF "full" \in act THEN 1 ELSE 0)
        /\ UNCHANGED <<kind, srv, hint, mutated, deleted, nReval, nCalls, currentUser>>
        /\ UNCHANGED notParked

\* useFrappeAuth: what a call of deleteDatabase does, indexdb.delete() drops the
\* database with every record of the table
deleteDatabase(st) == [id \in DOMAIN st |-> <<>>]

\* useFrappeAuth: logout, once auth.logout() has resolved.  The first then
\* callback is () => deleteDatabase: it returns the function and does not call
\* it, so the store is left as it is; the second sets the user to null
logout ==
    /\ currentUser # <<>>
    /\ currentUser' = <<>>
    /\ store' = store
    /\ ops' = <<>>
    /\ UNCHANGED <<kind, now, srv, lastFetched, shouldLoad, cache, inflight, hint,
                   nFull, mutated, deleted, nReval, nCalls, ident, reads, crashed>>
    /\ UNCHANGED otherVars

\* the hook's own cycle and the remote authority
Auto ==
    \/ GetLastFetchedResolve
    \/ \E s \in Slots : SWRSuccess(s)
    \/ \E s \in Slots : SWRError(s)
    \/ ServerEdit
    \/ ServerInsert
    \/ ServerDeleteDoc
    \/ ServerSetPermission

\* the caller's mutate() and delete()
Caller ==
    \/ forceRefresh
    \/ forceDelete

Next == Auto

NextReval == Auto \/ SWRRevalidate

NextCaller == Auto \/ Caller

NextAll == Auto \/ SWRRevalidate \/ Caller

NextTwice == Auto \/ forceRefreshTwice

NextIdentity == Auto \/ ChangeIdentity

NextLogout == Auto \/ logout

NextStoreFail == Auto \/ GetLastFetchedReject

\* the automatic cycle of a mounted hook: no caller intervention, no background
\* revalidation
Spec == Init /\ [][Next]_vars

\* ... with SWR's background revalidation
SpecReval == Init /\ [][NextReval]_vars

\* ... with the caller's mutate() and delete()
SpecCaller == Init /\ [][NextCaller]_vars

\* everything
SpecAll == Init /\ [][NextAll]_vars

\* the automatic cycle and a caller that calls mutate() twice in a row
SpecTwice == Init /\ [][NextTwice]_vars

\* the automatic cycle of a hook whose identity changes while it is mounted
SpecIdentity == Init /\ [][NextIdentity]_vars

\* ... when the store holds a record of the second identity at mount
InitBoth == HookInitFrom(InitStoresBoth(kind, hint)) /\ OthersAtRest

SpecIdentityCached == InitBoth /\ [][NextIdentity]_vars

\* the events of a call hook, which has no permission, count or modified signal
NextRevisit ==
    \/ GetLastFetchedResolve
    \/ SWRSuccess("full")
    \/ SWRError("full")
    \/ ServerEdit
    \/ ChangeIdentityTo

\* a mounted useFrappeGetCallOffline
InitCall == Init /\ kind = "call"

\* the automatic cycle of a call hook whose identity changes back and forth
SpecRevisit == InitCall /\ [][NextRevisit]_vars

\* the automatic cycle of a hook in an application whose user logs out
SpecLogout == Init /\ [][NextLogout]_vars

\* the automatic cycle of a hook whose store read can fail
SpecStoreFail == Init /\ [][NextStoreFail]_vars

\* useFrappeAuth with getUserCookie: any token setting, cookie and session
InitAuth ==
    /\ OneHook
    /\ mutation = MutationMounted("doc")
    /\ socket = ListenerRendered(FALSE, 1, TRUE)
    /\ search = SearchMounted("", 1)
    /\ parked = EmptyCache
    /\ docs = TwoHooks(DocRequest(<<"a">>, <<"a">>), DocRequest(<<"a">>, <<"_">>))
    /\ events = NoListeners
    /\ auth \in {AuthFirstRender(t, c, ses) :
                     t \in BOOLEAN, c \in Cookies, ses \in {<<>>, <<UserName>>}}

NextAuth ==
    \/ AuthMountEffect
    \/ getUserCookie
    \/ AuthSWRSuccess
    \/ AuthSWRError
    \/ updateCurrentUser
    \/ login
    \/ logoutWithCookie
    \/ ServerSessionEnds

SpecAuth == InitAuth /\ [][NextAuth]_vars

\* one mutation hook of any of the three forms
InitMutation ==
    /\ OneHook
    /\ auth = AuthAtRest
    /\ socket = ListenerRendered(FALSE, 1, TRUE)
    /\ search = SearchMounted("", 1)
    /\ parked = EmptyCache
    /\ docs = TwoHooks(DocRequest(<<"a">>, <<"a">>), DocRequest(<<"a">>, <<"_">>))
    /\ events = NoListeners
    /\ mutation \in {MutationMounted(hook) : hook \in MutationHooks}

NextMutation ==
    \/ MutationCall
    \/ \E i \in Requests : MutationResolve(i)
    \/ \E i \in Requests : MutationReject(i)
    \/ UploadProgress
    \/ MutationReset

SpecMutation == InitMutation /\ [][NextMutation]_vars

\* one useFrappeDocumentEventListener, with or without a socket
InitSocket ==
    /\ OneHook
    /\ auth = AuthAtRest
    /\ mutation = MutationMounted("doc")
    /\ search = SearchMounted("", 1)
    /\ parked = EmptyCache
    /\ docs = TwoHooks(DocRequest(<<"a">>, <<"a">>), DocRequest(<<"a">>, <<"_">>))
    /\ events = NoListeners
    /\ socket \in {ListenerRendered(e, d, oc) :
                      e \in BOOLEAN, d \in Identities, oc \in BOOLEAN}

NextSocket ==
    \/ ListenerMount
    \/ ListenerDocnameChange
    \/ ListenerFlagChange
    \/ SocketReconnect
    \/ emitDocOpen
    \/ emitDocClose
    \/ ListenerUnmount

SpecSocket == InitSocket /\ [][NextSocket]_vars

\* one useSearch, mounted with any text and debounce
InitSearch ==
    /\ OneHook
    /\ auth = AuthAtRest
    /\ mutation = MutationMounted("doc")
    /\ socket = ListenerRendered(FALSE, 1, TRUE)
    /\ search \in {SearchMounted(t, d) : t \in Texts, d \in Delays}
    /\ parked = EmptyCache
    /\ docs = TwoHooks(DocRequest(<<"a">>, <<"a">>), DocRequest(<<"a">>, <<"_">>))
    /\ events = NoListeners

NextSearch ==
    \/ SearchTextChange
    \/ SearchDelayChange
    \/ SearchTimeout
    \/ SearchTick

SpecSearch == InitSearch /\ [][NextSearch]_vars

\* two offline hooks mounted with two different requests
InitDocs ==
    /\ OneHook
    /\ auth = AuthAtRest
    /\ mutation = MutationMounted("doc")
    /\ socket = ListenerRendered(FALSE, 1, TRUE)
    /\ search = SearchMounted("", 1)
    /\ parked = EmptyCache
    /\ docs \in {TwoHooks(a, b) : a, b \in OfflineRequests}
    /\ docs.a # docs.b
    /\ events = NoListeners

NextDocs == TablePut \/ TableDelete

SpecDocs == InitDocs /\ [][NextDocs]_vars

NextEvents ==
    \/ EventListenerMount
    \/ EventListenerCallbackChange
    \/ EventListenerUnmount
    \/ ServerEvent

\* two components that use useFrappeEventListener for one event name, not
\* yet mounted
InitEvents == OneHook /\ OthersAtRest

SpecEvents == InitEvents /\ [][NextEvents]_vars

----------------------------------------------------------------------------
(* Properties *)

\* the staleness signal of the mounted hook has been answered and reports no
\* change against the cached record
NoChangeSignalled ==
    CASE kind = "doc" ->
           /\ Truthy(hasPermission(Cur))
           /\ modifiedSignal(Cur) = << <<Cached.modified>> >>
      [] kind = "list" ->
           /\ Truthy(hasPermission(Cur))
           /\ listCount(Cur) # <<>>
           /\ listCount(Cur) = Cached.count
           /\ modifiedSignal(Cur) # <<>>
           /\ \/ modifiedSignal(Cur)[1] = <<>>
              \/ modifiedSignal(Cur)[1][1].modified <= Cached.modified
      [] OTHER ->
           hint = <<>> \/ hint[2] <= Cached.lastFetchedOn

C2_MissFetchesWhateverSignal ==
    (lastFetched = Undefined /\ Settled) => nFull = 1

\* C2, amended: when the store read found no record, exactly one full fetch is
\* invoked by the automatic cycle -- for the call hook always, for the doc and
\* list hooks once the permission check has answered true; while the permission
\* answer is missing or false, none is invoked.
C2_MissFetchesOncePermitted ==
    lastFetched = Undefined
        => nFull = (IF kind = "call" \/ Truthy(hasPermission(Cur)) THEN 1 ELSE 0)

\* a call hook whose store read found nothing and whose single fetch was answered
C2_Witness ==
    /\ kind = "call"
    /\ lastFetched = Undefined
    /\ nFull = 1
    /\ Result.data # <<>>

\* the record the store holds for the identity
Stored == store[RecordId(kind)]

\* C3 as stated: once a permission check of a doc or list hook has answered
\* false and the hook has settled, the store holds no record for the identity
\* (whether the record was read at mount or written by this instance) and the
\* returned error is the 403 permission error.
C3_RevocationTombstones ==
    (kind # "call" /\ Settled /\ hasPermission(Cur) = <<FALSE>>)
        => (Stored = <<>> /\ Result.error = <<PermissionError403>>)

\* C4 as stated: whenever the full fetch has delivered a payload to the hook,
\* the store holds a record for the identity whose payload equals the fetched
\* payload and whose lastFetchedOn is not earlier than that of the record read
\* at mount.
C4_WriteThrough ==
    Result.isLoadedFromServer /\ Result.data # <<>>
        => /\ Stored # <<>>
           /\ Stored[1].data = Result.data[1]
           /\ lastFetchExist(Cur) => Stored[1].lastFetchedOn >= Cached.lastFetchedOn

\* no remote call of the hook has been answered since the mount
RemoteUnreachable == \A s \in Slots : cache[s].data = <<>>

\* C5 as stated: when the store read found a record and the remote cannot be
\* reached, the record stays in the store and its payload is the returned data.
C5_OfflineServing ==
    (lastFetchExist(Cur) /\ RemoteUnreachable)
        => (Stored # <<>> /\ Result.data = <<Cached.data>>)

\* C6 as stated: when the full fetch of an identity with a cached record has
\* failed, the record is deleted from the store, the error is returned and the
\* last-known payload is not returned as data.
C6_ErrorInvalidates ==
    (lastFetchExist(Cur) /\ Settled /\ cache["full"].err /\ cache["full"].data = <<>>)
        => /\ Stored = <<>>
           /\ Result.error # <<>>
           /\ Result.data # <<Cached.data>>

\* C7: an action of a doc or list hook performs a put only when the most recent
\* permission answer is "granted"; under a denial the only store operation is a
\* delete.
C7_NoPutUnderDenial ==
    (kind # "call" /\ Did("put")) => hasPermission(Cur) = <<TRUE>>

\* a denial, arriving after this instance wrote or read a record, that caused a
\* delete and no put
C7_Witness ==
    /\ kind # "call"
    /\ hasPermission(Cur) = <<FALSE>>
    /\ Did("delete")
    /\ ~Did("put")

\* C8 as stated: while the permission answer is false, the returned error is the
\* 403 permission error naming the doctype and the returned data is undefined,
\* even if a cached payload was read.
C8_DenialProjection ==
    (kind # "call" /\ hasPermission(Cur) = <<FALSE>>)
        => (Result.error = <<PermissionError403>> /\ Result.data = <<>>)

\* the staleness rule of the doc hook
DocRule ==
    \/ lastFetched = Undefined
    \/ /\ lastFetchExist(Cur)
       /\ modifiedSignal(Cur) # <<>>
       /\ \/ modifiedSignal(Cur)[1] = <<>>
          \/ modifiedSignal(Cur)[1][1] # Cached.modified

\* C9: while the permission check is true, the doc hook has decided to fetch
\* exactly when (a) the store read found no record, or (b) the remote modified
\* signal is answered and differs from the cached modified, or (c) a record
\* exists and the modified signal is answered without a modified value.
C9_DocStaleness ==
    (kind = "doc" /\ Truthy(hasPermission(Cur))) => (shouldLoad <=> DocRule)

\* case (c): a record exists, the signal came back without a modified value, and
\* the hook decided to fetch
C9_Witness ==
    /\ kind = "doc"
    /\ Truthy(hasPermission(Cur))
    /\ lastFetchExist(Cur)
    /\ modifiedSignal(Cur) = << <<>> >>
    /\ shouldLoad
    /\ nFull = 1

\* C10 as stated: for a list hook with a cached record and an answered count,
\* (i) count equal and latest modified equal to the cached latest modified: no
\* fetch; (ii) count different, or latest modified strictly later than the
\* cached latest modified: fetch; (iii) the latest-modified query is only made
\* when the counts match.
C10_ListTwoStage ==
    (kind = "list" /\ lastFetchExist(Cur) /\ Truthy(hasPermission(Cur)) /\ listCount(Cur) # <<>>)
        => /\ (/\ listCount(Cur) = Cached.count
               /\ modifiedSignal(Cur) # <<>>
               /\ modifiedSignal(Cur)[1] # <<>>
               /\ modifiedSignal(Cur)[1][1].modified = Cached.modified)
                  => nFull = 0
           /\ (\/ listCount(Cur) # Cached.count
               \/ /\ modifiedSignal(Cur) # <<>>
                  /\ modifiedSignal(Cur)[1] # <<>>
                  /\ modifiedSignal(Cur)[1][1].modified > Cached.modified)
                  => shouldLoad
           /\ (inflight["sig2"] \/ cache["sig2"].data # <<>>)
                  => listCount(Cur) = Cached.count

\* C11 (useFrappeGetCallOffline staleness rule): once the store read has resolved,
\* the hook has decided to fetch exactly when no record is cached or the caller's
\* lastModified names a time strictly after the cached record's lastFetchedOn;
\* and with a record cached and no lastModified no full fetch is issued before
\* mutate() is called.
C11_CallStaleness ==
    (kind = "call" /\ lastFetched # Null /\ ~mutated /\ ~deleted)
        => /\ shouldLoad <=> \/ lastFetched = Undefined
                             \/ (hint # <<>> /\ hint[2] > Cached.lastFetchedOn)
           /\ (lastFetchExist(Cur) /\ hint = <<>>) => nFull = 0

\* C12 (idempotent re-fetch): two mutate() calls in immediate succession start
\* at most one full fetch.
C12_IdempotentRefetch == [][forceRefreshTwice => nFull' <= nFull + 1]_vars

\* C13 as stated (force refresh is unconditional): once mutate() has been called
\* and the hook has come to rest with every request answered, a full fetch has
\* been issued.
C13_ForceRefreshUnconditional ==
    (mutated /\ Settled /\ ~crashed /\ (kind # "call" => hasPermission(Cur) # <<>>))
        => nFull >= 1

\* C13 (force refresh, given permission): when mutate() is called on the call
\* hook, or on the doc or list hook while the permission check has answered
\* true, a full fetch is in flight as soon as the call has been handled, also
\* when the cached record was judged fresh.
C13_ForceRefreshOncePermitted ==
    [][forceRefresh => ((kind = "call" \/ Truthy(hasPermission(Cur)))
                            => inflight'["full"])]_vars

\* a cached record was judged fresh, then mutate() started the first full fetch
C13_Witness ==
    /\ kind = "doc"
    /\ mutated
    /\ lastFetchExist(Cur)
    /\ NoChangeSignalled
    /\ inflight["full"]
    /\ nFull = 1

\* C14 (manual delete evicts): when delete() is called after the store read of
\* the mount has resolved, the store holds no record for the identity once the
\* call has been handled, whether the record was there at the mount or was
\* written during it.
C14_DeleteEvicts ==
    [][(forceDelete /\ reads = {}) => store'[RecordId(kind)] = <<>>]_vars

\* C15 (manual delete suppresses automatic fetching): after delete() on a hook
\* whose store read found a record, no full fetch is issued as long as mutate()
\* has not been called, whatever answer arrives.
C15_DeleteSuppresses ==
    [][(deleted /\ ~mutated' /\ lastFetchExist(Cur)) => nFull' = nFull]_vars

\* C16 (stale-while-revalidate projection): while the full fetch is in flight and
\* the store read found a record, the hook returns the cached payload as data
\* and isValidating is true.
C16_StaleWhileRevalidate ==
    (lastFetchExist(Cur) /\ "full" \in ActiveSlots(Cur) /\ inflight["full"] /\ ~crashed)
        => (Result.data = <<Cached.data>> /\ Result.isValidating)

\* C17 (loading projection): from the mount until the hook has come to rest, as
\* long as no cached record is available, the hook returns isLoading = TRUE and
\* no data.
C17_LoadingProjection ==
    (~lastFetchExist(Cur) /\ Stored = <<>> /\ ~Settled /\ ~crashed)
        => (Result.isLoading /\ Result.data = <<>>)

\* C18 (identity change mid-flight): once the identity has changed from the
\* first to the second and both store reads have completed, nothing of the
\* first identity is the cached record of the hook, is returned as data, or is
\* stored under the second identity's id.
C18_IdentityChange ==
    (ident = 2 /\ reads = {} /\ ~crashed)
        => /\ lastFetchExist(Cur) => Cached.data.name = 2
           /\ Result.data # <<>> => Result.data[1].name = 2
           /\ Stored # <<>> => Stored[1].data.name = 2

\* C19 (logout resets the local store): when logout() has resolved, the local
\* store has been dropped: it holds no record.
C19_LogoutResetsStore == [][logout => store' = deleteDatabase(store)]_vars

\* C20 (a store failure never blocks the remote path): when the store read has
\* been rejected and the hook has come to rest with permission granted, a full
\* fetch has been issued.
C20_StoreFailureFallsThrough ==
    (/\ reads = {} /\ lastFetched = Null
     /\ Settled /\ ~crashed
     /\ (kind = "call" \/ Truthy(hasPermission(Cur))))
        => nFull >= 1

\* C21 (no remote error is swallowed): whenever a remote call of the hook (the
\* permission check, a comparison signal, the full fetch) has failed and no
\* newer answer has replaced the failure, the hook's error field is that error.
C21_NoRemoteErrorSwallowed ==
    (~crashed /\ \E s \in Slots : Visible(Cur, s).err)
        => Result.error = <<RemoteError>>

\* C22 (no API call without a cookie): without token authentication a
\* get_logged_user request has been issued exactly if getUserCookie has found
\* the user_id cookie of a user (not absent, not empty, not Guest).
C22_NoCallWithoutCookie ==
    ~auth.useToken => (auth.requested <=> auth.found)

\* a user cookie was found, the request was issued and answered
C22_Witness ==
    /\ ~auth.useToken
    /\ auth.found
    /\ auth.requested
    /\ AuthResult(auth).currentUser = Str(UserName)

\* C23 (logout clears the user state): after logout() has resolved and until a
\* login succeeds, currentUser is null or undefined.
C23_LogoutClearsUser ==
    auth.loggedOut => AuthResult(auth).currentUser \in {<<"null">>, <<"undefined">>}

\* C24 (loading tracks pending requests): when one call of a loading mutation
\* hook settles while another call of it is still pending, loading stays true.
C24_LoadingTracksPending ==
    [][(mutation.loading /\ Pending(mutation') # {}
            /\ Pending(mutation') # Pending(mutation)
            /\ Pending(mutation') \subseteq Pending(mutation))
        => mutation'.loading]_vars

\* C25 (mutation outcome states): when a call that no other call overlapped
\* settles, then on success loading is false, isCompleted true, error null,
\* result the response (call hooks) and the promise is resolved with the
\* response; on failure loading is false, isCompleted false, error the failure
\* and the promise is rejected with it; in both cases isCompleted and a non-null
\* error do not hold together.
C25_MutationOutcome ==
    [][\A i \in Requests :
          (mutation.promise[i] = <<"pending">> /\ mutation'.promise[i] # <<"pending">>
              /\ ~mutation.overlapped)
          => /\ ~mutation'.loading
             /\ ~(mutation'.isCompleted /\ mutation'.error # <<>>)
             /\ IF mutation'.promise[i][1] = "resolved"
                THEN /\ mutation'.isCompleted
                     /\ mutation'.error = <<>>
                     /\ mutation'.promise[i][2] = Response(i)
                     /\ mutation.hook = "call" => mutation'.result = <<Response(i)>>
                ELSE /\ ~mutation'.isCompleted
                     /\ mutation'.error = <<Failure(i)>>
                     /\ mutation'.promise[i] = <<"rejected", Failure(i)>>]_vars

\* a single call has failed, and a later single call has succeeded
C25_Witness ==
    /\ mutation.hook = "call"
    /\ ~mutation.overlapped
    /\ mutation.promise[1] = <<"rejected", Failure(1)>>
    /\ mutation.promise[2] = <<"resolved", Response(2)>>
    /\ mutation.result = <<Response(2)>>
    /\ mutation.isCompleted

\* C26 (document room subscription follows the mount): once the component
\* has unmounted, no step emits a further doc_subscribe.
C26_NoSubscribeAfterUnmount ==
    [][socket.phase = "unmounted"
        => \A i \in (Len(socket.emitted) + 1)..Len(socket'.emitted) :
               socket'.emitted[i][1] # "doc_subscribe"]_vars

\* C27 (search is debounced): a step that issues a search_link call issues it
\* for the current text, and that text has then been unchanged for at least
\* the debounce delay; so a text that was replaced before the delay elapsed
\* is not sent.
C27_SearchDebounced ==
    [][Len(search'.requests) > Len(search.requests)
        => /\ search'.requests[Len(search'.requests)] = search'.text
           /\ search'.stable >= search'.delay]_vars

\* "a" was typed and replaced by "ab" before the delay elapsed; after the
\* delay the call for "ab" has been issued, and none for "a"
C27_Witness ==
    /\ search.typed = <<"a", "ab">>
    /\ search.requests = <<"", "ab">>

\* C28 as stated: a doc or list hook deletes the cached record, other than for
\* a failed full fetch, only when the permission check has answered false; in
\* particular not while the check is pending and the store read has returned
\* the record.
C28_GateDeletesOnDenialOnly ==
    (kind # "call" /\ lastFetchExist(Cur) /\ Did("delete") /\ ~cache["full"].err)
        => hasPermission(Cur) = <<FALSE>>

\* C29 as stated: while the permission check of a doc or list hook has not
\* answered, or has answered true, the returned error is not the 403
\* permission error.
C29_ForbiddenOnDenialOnly ==
    (kind # "call" /\ ~crashed /\ hasPermission(Cur) # <<FALSE>>)
        => Result.error # <<PermissionError403>>

\* C30 as stated: after the identity has changed to the second one, when the
\* store read has returned the second identity's record and its comparison
\* signal indicates no change, no full fetch is issued for it and the returned
\* data is the payload of that record, whatever was decided for the first.
C30_DecisionPerIdentity ==
    (ident = 2 /\ reads = {} /\ ~crashed /\ lastFetchExist(Cur)
        /\ Cached.data.name = 2 /\ NoChangeSignalled)
        => /\ "full" \notin ActiveSlots(Cur)
           /\ Result.data = <<Cached.data>>

\* C31 as stated: whenever the list hook has written a record, the count of the
\* record is a number, the row count the count signal delivered, whichever of
\* the count response and the list response arrived first.
C31_StoredCountIsRemoteCount ==
    (kind = "list" /\ Did("put"))
        => /\ Stored # <<>>
           /\ Stored[1].count # <<>>
           /\ Stored[1].count = cache["sig"].data

\* C32 as stated: every store operation of the hook (the write-through put,
\* the delete after a failed fetch, the manual delete) addresses the record id
\* of the identity, the id the store read uses.
C32_OneKeyPerIdentity ==
    \A i \in 1..Len(ops) : ops[i].id = RecordId(kind)

\* C33 as stated: two different requests never share a record id, so the
\* record a hook has put and not deleted is in the table whatever the hook of
\* another request puts or deletes.
C33_IdsUniquePerIdentity ==
    \A r \in docs.kept : <<RequestId(r), r>> \in docs.rows

\* C34 as stated: the callback of every mounted component is registered on
\* the socket, whatever the other component does (unmount, change of its
\* callback), so an event of the server reaches it.
C34_ListenersIndependent ==
    \A c \in events.mounted : <<c, events.callback[c]>> \in events.listeners


\* C35: in every reachable state of a useFrappeFileUpload instance, isCompleted
\* true implies progress = 100, loading = false and error = null, also when
\* several uploads started through the same instance overlap.
C35_UploadCompletion ==
    (mutation.hook = "file" /\ mutation.isCompleted)
        => (mutation.progress = 100 /\ ~mutation.loading /\ mutation.error = <<>>)


\* C36: the doc_open and doc_close events the hook emits on its own (from its
\* effect and the effect's cleanup, not from emitDocOpen / emitDocClose) are
\* paired: in the order sent they alternate, each doc_close is for the
\* document of the doc_open before it, an unmounted hook has closed every
\* document it opened, a doc_open not yet closed is for the current document
\* of a hook rendered with emitOpenCloseEventsOnMount true, and a step that
\* starts and ends with the flag false emits neither event on its own.
C36_OpenClosePaired ==
    [][LET Own(log) == SelectSeq(log, LAMBDA e :
                           /\ e[1] \in {"doc_open", "doc_close"}
                           /\ e[3] \in {"effect", "cleanup"})
           own == Own(socket'.emitted)
       IN  /\ \A j \in 1..Len(own) :
                  IF j % 2 = 1
                  THEN own[j][1] = "doc_open"
                  ELSE own[j][1] = "doc_close" /\ own[j][2] = own[j - 1][2]
           /\ socket'.phase = "unmounted" => Len(own) % 2 = 0
           /\ Len(own) % 2 = 1 =>
                  /\ own[Len(own)][2] = socket'.docname
                  /\ socket'.emitOpenCloseEventsOnMount
           /\ (~socket.emitOpenCloseEventsOnMount /\ ~socket'.emitOpenCloseEventsOnMount)
                  => own = Own(socket.emitted)]_vars

\* a hook that opened a document on mount, whose emitDocOpen was called, and
\* that closed the same document when it unmounted
C36_Witness ==
    /\ socket.phase = "unmounted"
    /\ socket.emitOpenCloseEventsOnMount
    /\ \E i, j, k \in 1..Len(socket.emitted) :
           /\ i < j /\ j < k
           /\ socket.emitted[i] = <<"doc_open", socket.docname, "effect">>
           /\ socket.emitted[j] = <<"doc_open", socket.docname, "emitDocOpen">>
           /\ socket.emitted[k] = <<"doc_close", socket.docname, "cleanup">>

====
